---- MODULE Spec2Model ----
(***************************************************************************)
(* MicroCosmos-3D: the Generalized Lotka-Volterra sampling loop of Home,   *)
(* its scenario presets, the chart history window and the Colony frame     *)
(* callback (src/unnamed/part_000; the integrator is the same function in  *)
(* src/app/page.tsx).                                                      *)
(*                                                                         *)
(* Numbers.  The program computes in IEEE-754 doubles.  Here a number x is *)
(* the integer x * Scale (four decimal places), and every multiplication   *)
(* rounds its result to the nearest representable value, as every double   *)
(* multiplication does (to 53 bits there, to 1/Scale here).  Additions of  *)
(* representable values are exact.  All literals of the program (0.1, 0.05,*)
(* 0.4, the rates, the matrix) are representable exactly.                  *)
(***************************************************************************)
EXTENDS Integers, Sequences, FiniteSets, TLC

VARIABLES
    pops,          \* Home: useState([1.0, 1.0, 1.0])
    history,       \* Home: useState([]) - the chart's data points
    explanation,   \* Home: useState("Default balanced ecosystem.")
    params,        \* Home: params.current = {r, A, dt}
    populations,   \* Colony: the populations prop the last frame callback read
    instanceScale, \* Colony: scale written into the mesh, per species
    frames,        \* has a frame callback run yet
    thrown,        \* what the most recent applyScenario call signalled
    lastType,      \* log: argument of the most recent applyScenario call
    lastKnown,     \* log: the most recently applied known preset
    lastStep,      \* log: the most recent updatePopulations call
    frameStep,     \* log: lastStep as it was when the last frame ran
    outLog,        \* log: every vector published by the interval callback
    nSteps,        \* log: interval callbacks run so far
    nCmds,         \* log: applyScenario calls so far
    sinceApply     \* log: interval callbacks since the last effective preset

vars == <<pops, history, explanation, params, populations, instanceScale,
          frames, thrown, lastType, lastKnown, lastStep, frameStep, outLog, nSteps,
          nCmds, sinceApply>>

----------------------------------------------------------------------------
(* Bounds of the exploration *)

\* Spec: interval ticks explored under every interleaving
MaxSteps == 5
\* Spec: applyScenario calls explored under every interleaving
MaxCmds == 3
\* LongSpec: interval ticks of a long session
MaxLongSteps == 475
\* LongSpec: commands and frames arrive during the first Window ticks,
Window == 1
\* and commands once more after LateTick ticks, when the population has
\* settled under the preset in force
LateTick == 150
\* LongSpec: applyScenario calls
MaxLongCmds == 2
\* steps after which the collapse preset has brought every species to the floor
CollapseBound == 320

----------------------------------------------------------------------------
(* Fixed-point numbers *)

Scale == 10^4

Species == 0..2

\* n / d rounded to the nearest integer (d > 0)
RoundDiv(n, d) == (2 * n + d) \div (2 * d)

\* the product of two numbers, rounded to the nearest representable value.
\* a * b / Scale is split so that no intermediate exceeds 32 bits.
Mul(a, b) ==
    LET qa == a \div Scale
        ra == a % Scale
        qb == b \div Scale
        rb == b % Scale
    IN  qa * b + ra * qb + RoundDiv(ra * rb, Scale)

Max(a, b) == IF a >= b THEN a ELSE b

Vec(a, b, c) == [i \in Species |-> IF i = 0 THEN a ELSE IF i = 1 THEN b ELSE c]

\* d tenths
Tenths(d) == d * (Scale \div 10)

----------------------------------------------------------------------------
(* Program constants *)

\* Math.max(0.1, ...)
Floor == Tenths(1)

\* useState([1.0, 1.0, 1.0])
InitPops == Vec(Tenths(10), Tenths(10), Tenths(10))

\* params.current.A
InitA == [i \in Species |->
            IF i = 0 THEN Vec(Tenths(-1), Tenths(5), Tenths(-2))
            ELSE IF i = 1 THEN Vec(Tenths(-5), Tenths(-1), 0)
            ELSE Vec(Tenths(-1), Tenths(-2), Tenths(-1))]

\* params.current.dt = 0.05
InitDt == 5 * (Scale \div 100)

\* the growth rates each branch of applyScenario installs
BalanceR == Vec(Tenths(5), Tenths(3), Tenths(4))
ExplosionR == Vec(Tenths(8), Tenths(15), Tenths(1))
ExtinctionR == Vec(Tenths(-2), Tenths(-1), Tenths(-1))

KnownTypes == {"balance", "explosion", "extinction"}

PresetR(type) ==
    IF type = "balance" THEN BalanceR
    ELSE IF type = "explosion" THEN ExplosionR
    ELSE ExtinctionR

PresetText(type) ==
    IF type = "balance"
        THEN "Stable Equilibrium: Predator and Prey populations oscillate in harmony."
    ELSE IF type = "explosion"
        THEN "Population Explosion: High growth rate leads to chaotic spikes."
    ELSE "Mass Extinction: Harsh conditions cause all populations to collapse."

\* newData.slice(-50)
HistoryWindow == 50

\* populations[p.species] * 0.4
ScaleFactor == Tenths(4)

\* the strings applyScenario is called with: the three buttons' and one other
Types == KnownTypes \cup {"unknown"}

----------------------------------------------------------------------------
(* updatePopulations *)

\* the inner loop: interaction += A[i][j] * pops[j], j = 0, 1, 2
RECURSIVE InteractionFrom(_, _, _, _, _)
InteractionFrom(j, acc, A, v, i) ==
    IF j > 2 THEN acc
    ELSE InteractionFrom(j + 1, acc + Mul(A[i][j], v[j]), A, v, i)

\* one pass of the outer loop's body, reading the vector v:
\* Math.max(0.1, v[i] + v[i] * (r[i] + interaction) * dt)
NextValue(v, p, i) ==
    LET interaction == InteractionFrom(0, 0, p.A, v, i)
        dN == Mul(v[i], p.r[i] + interaction)
    IN  Max(Floor, v[i] + Mul(dN, p.dt))

\* the outer loop from species i on.  st.pops is the argument array and
\* st.newPops the array being filled: the body reads pops and writes newPops.
RECURSIVE EulerLoop(_, _, _)
EulerLoop(i, st, p) ==
    IF i > 2 THEN st
    ELSE EulerLoop(i + 1,
                   [st EXCEPT !.newPops[i] = NextValue(st.pops, p, i)],
                   p)

\* the same loop when newPops is the argument array itself and not a copy
RECURSIVE EulerLoopAliased(_, _, _)
EulerLoopAliased(i, st, p) ==
    IF i > 2 THEN st
    ELSE LET x == NextValue(st.pops, p, i)
         IN  EulerLoopAliased(i + 1,
                 [st EXCEPT !.newPops[i] = x, !.pops[i] = x], p)

\* faulty variant: A[j][i] in place of A[i][j]
Transposed(A) == [i \in Species |-> [j \in Species |-> A[j][i]]]

updatePopulationsTransposed(v, p) ==
    EulerLoop(0, [pops |-> v, newPops |-> v], [p EXCEPT !.A = Transposed(p.A)])

\* faulty variant: const newPops = pops (no copy)
updatePopulationsAliased(v, p) ==
    EulerLoopAliased(0, [pops |-> v, newPops |-> v], p)

\* faulty variant: pops[i] - dN * dt
updatePopulationsMinus(v, p) ==
    [pops |-> v,
     newPops |-> [i \in Species |->
        LET interaction == InteractionFrom(0, 0, p.A, v, i)
        IN  Max(Floor, v[i] - Mul(Mul(v[i], p.r[i] + interaction), p.dt))]]

\* faulty variant: no clamp
updatePopulationsNoClamp(v, p) ==
    [pops |-> v,
     newPops |-> [i \in Species |->
        LET interaction == InteractionFrom(0, 0, p.A, v, i)
        IN  v[i] + Mul(Mul(v[i], p.r[i] + interaction), p.dt)]]

\* updatePopulations(pops, params): .newPops is the value returned, .pops the
\* argument array as the call leaves it.  newPops = [...pops] is a copy.
updatePopulations(v, p) ==
    EulerLoop(0, [pops |-> v, newPops |-> v], p)

----------------------------------------------------------------------------
(* Home *)

Point(v) == [name |-> "", A |-> v[0], B |-> v[1], C |-> v[2]]

\* s.slice(-n)
SliceLast(s, n) == IF Len(s) <= n THEN s ELSE SubSeq(s, Len(s) - n + 1, Len(s))

\* s.slice(0, n)
SliceFirst(s, n) == IF Len(s) <= n THEN s ELSE SubSeq(s, 1, n)

\* faulty variant: the new vector is written into the state array one field at a time,
\* and the array is visible between two writes
IntervalCallbackFieldwise ==
    LET next == updatePopulations(pops, params).newPops
    IN  /\ \E i \in Species : pops' = [pops EXCEPT ![i] = next[i]]
        /\ history' = SliceLast(Append(history, Point(next)), HistoryWindow)
        /\ UNCHANGED <<explanation, params, populations, instanceScale, frames,
                       thrown>>

\* faulty variant: newData.slice(0, 50)
IntervalCallbackKeepFirst ==
    LET next == updatePopulations(pops, params).newPops
    IN  /\ pops' = next
        /\ history' = SliceFirst(Append(history, Point(next)), HistoryWindow)
        /\ UNCHANGED <<explanation, params, populations, instanceScale, frames,
                       thrown>>

\* the setInterval callback: setPops(current => { next = updatePopulations(
\* current, params.current); setHistory(prev => [...prev, point].slice(-50));
\* return next })
IntervalCallback ==
    LET next == updatePopulations(pops, params).newPops
    IN  /\ pops' = next
        /\ history' = SliceLast(Append(history, Point(next)), HistoryWindow)
        /\ UNCHANGED <<explanation, params, populations, instanceScale, frames,
                       thrown>>

\* faulty variant: an else branch that falls back to the balanced preset
applyScenarioDefault(type) ==
    /\ params' = [params EXCEPT !.r =
                    IF type \in KnownTypes THEN PresetR(type) ELSE BalanceR]
    /\ explanation' = IF type \in KnownTypes THEN PresetText(type)
                      ELSE PresetText("balance")
    /\ thrown' = "none"
    /\ UNCHANGED <<pops, history, populations, instanceScale, frames>>

\* faulty variant: a preset also restarts the simulation
applyScenarioReset(type) ==
    /\ IF type \in KnownTypes
        THEN /\ params' = [params EXCEPT !.r = PresetR(type)]
             /\ explanation' = PresetText(type)
             /\ pops' = InitPops
        ELSE UNCHANGED <<params, explanation, pops>>
    /\ thrown' = "none"
    /\ UNCHANGED <<history, populations, instanceScale, frames>>

\* faulty variant: the balance branch sets the text and not the rates
applyScenarioStale(type) ==
    /\ IF type \in KnownTypes
        THEN /\ params' = IF type = "balance" THEN params
                          ELSE [params EXCEPT !.r = PresetR(type)]
             /\ explanation' = PresetText(type)
        ELSE UNCHANGED <<params, explanation>>
    /\ thrown' = "none"
    /\ UNCHANGED <<pops, history, populations, instanceScale, frames>>

\* faulty variant: the extinction branch installs [-0.2, -0.1, 0.1]
applyScenarioTypo(type) ==
    /\ IF type \in KnownTypes
        THEN /\ params' = [params EXCEPT !.r =
                    IF type = "extinction"
                        THEN Vec(Tenths(-2), Tenths(-1), Tenths(1))
                        ELSE PresetR(type)]
             /\ explanation' = PresetText(type)
        ELSE UNCHANGED <<params, explanation>>
    /\ thrown' = "none"
    /\ UNCHANGED <<pops, history, populations, instanceScale, frames>>

\* applyScenario(type): an if / else-if chain over the three known strings with
\* no final else; no branch throws
applyScenario(type) ==
    /\ IF type \in KnownTypes
        THEN /\ params' = [params EXCEPT !.r = PresetR(type)]
             /\ explanation' = PresetText(type)
        ELSE UNCHANGED <<params, explanation>>
    /\ thrown' = "none"
    /\ UNCHANGED <<pops, history, populations, instanceScale, frames>>

----------------------------------------------------------------------------
(* Colony *)

\* the useFrame callback: every particle's scale is populations[species] * 0.4
\* (one value per species: a particle's species is its index mod 3).  The mesh
\* is mounted before the first frame, so the early return is never taken.
useFrame ==
    /\ populations' = pops
    /\ instanceScale' = [s \in Species |-> Mul(pops[s], ScaleFactor)]
    /\ frames' = TRUE
    /\ UNCHANGED <<pops, history, explanation, params, thrown>>

----------------------------------------------------------------------------
(* The session *)

NoStep == [n |-> 0, in |-> InitPops, inAfter |-> InitPops, ret |-> InitPops,
           params |-> [r |-> BalanceR, A |-> InitA, dt |-> InitDt],
           paramsAfter |-> [r |-> BalanceR, A |-> InitA, dt |-> InitDt],
           known |-> "balance"]

Init ==
    /\ pops = InitPops
    /\ history = <<>>
    /\ explanation = "Default balanced ecosystem."
    /\ params = [r |-> BalanceR, A |-> InitA, dt |-> InitDt]
    /\ populations = InitPops
    /\ instanceScale = [s \in Species |-> Scale]   \* identity until a frame runs
    /\ frames = FALSE
    /\ thrown = "none"
    /\ lastType = ""
    /\ lastKnown = "balance"
    /\ lastStep = NoStep
    /\ frameStep = NoStep
    /\ outLog = <<>>
    /\ nSteps = 0
    /\ nCmds = 0
    /\ sinceApply = 0

\* the 100ms timer fires
StepTick(limit) ==
    /\ nSteps < limit
    /\ IntervalCallback
    /\ LET call == updatePopulations(pops, params)
       IN  /\ lastStep' = [n |-> nSteps + 1, in |-> pops, inAfter |-> call.pops,
                           ret |-> call.newPops, params |-> params,
                           paramsAfter |-> params', known |-> lastKnown]
           /\ outLog' = Append(outLog, call.newPops)
    /\ nSteps' = nSteps + 1
    /\ sinceApply' = sinceApply + 1
    /\ UNCHANGED <<lastType, lastKnown, frameStep, nCmds>>

\* a scenario command arrives
Command(type, limit, now) ==
    /\ nCmds < limit
    /\ now
    /\ applyScenario(type)
    /\ lastType' = type
    /\ lastKnown' = IF type \in KnownTypes THEN type ELSE lastKnown
    /\ sinceApply' = IF type \in KnownTypes THEN 0 ELSE sinceApply
    /\ nCmds' = nCmds + 1
    /\ UNCHANGED <<lastStep, frameStep, outLog, nSteps>>

\* the display refreshes
Frame(now) ==
    /\ now
    /\ useFrame
    /\ frameStep' = lastStep
    /\ UNCHANGED <<lastType, lastKnown, lastStep, outLog, nSteps, nCmds,
                   sinceApply>>

Next ==
    \/ StepTick(MaxSteps)
    \/ \E type \in Types : Command(type, MaxCmds, TRUE)
    \/ Frame(TRUE)

Spec == Init /\ [][Next]_vars

LongNext ==
    \/ StepTick(MaxLongSteps)
    \/ \E type \in Types :
            Command(type, MaxLongCmds, nSteps <= Window \/ nSteps = LateTick)
    \/ Frame(nSteps <= Window)

LongSpec == Init /\ [][LongNext]_vars

----------------------------------------------------------------------------
(* Properties *)

FloorVec == [i \in Species |-> Floor]

AtLeastFloor(v) == \A i \in Species : v[i] >= Floor

Min(a, b) == IF a <= b THEN a ELSE b

\* C1: every component of the population vector is at least 0.1 in every
\* state of the session: the state the interval callback publishes, every
\* chart point, and the vector the frame callback reads.
C1_FloorInvariant ==
    /\ AtLeastFloor(pops)
    /\ AtLeastFloor(populations)
    /\ \A k \in 1..Len(history) :
        history[k].A >= Floor /\ history[k].B >= Floor /\ history[k].C >= Floor

\* a step has just clamped a species that was above the floor
C1_Witness ==
    /\ nSteps > 0
    /\ \E i \in Species : pops[i] = Floor /\ lastStep.in[i] > Floor

C3_ScenarioIsolation ==
    [][nCmds' = nCmds + 1
        => /\ params'.A = params.A
           /\ params'.dt = params.dt
           /\ pops' = pops]_vars

\* a preset has just replaced the rates while the population was away from
\* its initial value
C3_Witness ==
    /\ lastType = "extinction"
    /\ sinceApply = 0
    /\ params.r = ExtinctionR
    /\ pops # InitPops

\* 1.010 and 1.035
OnePointZeroOne == 101 * (Scale \div 100)

OnePointZeroThreeFive == 1035 * (Scale \div 1000)

FirstBalancedStep ==
    /\ nSteps = 1
    /\ lastStep.in = InitPops
    /\ lastStep.params = [r |-> BalanceR, A |-> InitA, dt |-> InitDt]

\* C4 as claimed: the first balanced step yields 1.010 for species 0
C4_Original ==
    FirstBalancedStep => pops[0] = OnePointZeroOne

\* C4 as amended: with the balanced rates, the reference matrix, time step
\* 0.05 and population [1, 1, 1], one step yields 1.035 = 1 + 0.7 * 0.05 for
\* species 0 (and 0.985 and 1.0 for species 1 and 2).
C4_KnownValue ==
    FirstBalancedStep
        => pops = Vec(OnePointZeroThreeFive, 985 * (Scale \div 1000), Scale)

C4_Witness ==
    FirstBalancedStep /\ pops[0] = OnePointZeroThreeFive

\* C5: once the collapse preset has been the last one applied for
\* CollapseBound steps, the population vector is [0.1, 0.1, 0.1], and it is
\* so after every further step.
C5_CollapseConverges ==
    /\ []((lastKnown = "extinction" /\ sinceApply >= CollapseBound)
            => pops = FloorVec)
    /\ [][(lastKnown = "extinction" /\ lastKnown' = "extinction"
            /\ pops = FloorVec) => pops' = FloorVec]_vars

\* the collapse preset was applied away from the floor and has run its course
C5_Witness ==
    /\ lastKnown = "extinction"
    /\ sinceApply > CollapseBound
    /\ pops = FloorVec
    /\ \E k \in 1..Len(outLog) : outLog[k][0] > Tenths(80)

\* C6 as claimed: under the collapse preset no step increases any species
C6_Original ==
    [][(lastKnown = "extinction" /\ nSteps' = nSteps + 1)
        => \A i \in Species : pops'[i] <= pops[i]]_vars

\* C6 as amended: under the collapse preset no step increases species 1 or
\* species 2; species 0, whose row of the matrix holds the positive entry
\* A[0][1] = 0.5, can increase while species 1 is abundant.
C6_CollapseMonotone ==
    [][(lastKnown = "extinction" /\ nSteps' = nSteps + 1)
        => pops'[1] <= pops[1] /\ pops'[2] <= pops[2]]_vars

\* a collapse step has lowered species 1 and 2 and raised species 0
C6_Witness ==
    /\ lastKnown = "extinction"
    /\ sinceApply > 0
    /\ lastStep.ret[1] < lastStep.in[1]
    /\ lastStep.ret[2] < lastStep.in[2]
    /\ lastStep.ret[0] > lastStep.in[0]

\* C7: the vector a frame callback reads is the initial vector or the whole
\* result of one updatePopulations call, and a frame leaves the population
\* vector as it was.
C7_AtomicPublish ==
    /\ [](populations =
            IF frameStep.n = 0 THEN InitPops
            ELSE updatePopulations(frameStep.in, frameStep.params).newPops)
    /\ [][populations' # populations \/ frames' # frames
            \/ frameStep' # frameStep => pops' = pops]_vars

\* a frame has read the result of a step taken under a preset applied between
\* two steps, and a further step was published since
C7_Witness ==
    /\ frames
    /\ frameStep.n = 2
    /\ frameStep.params.r = ExplosionR
    /\ nSteps = 3
    /\ populations # pops

\* C8: updatePopulations leaves its argument and the parameters as they were
\* and every component it returns is computed from the argument vector.
C8_StepPurity ==
    /\ lastStep.inAfter = lastStep.in
    /\ lastStep.paramsAfter = lastStep.params
    /\ lastStep.n > 0 =>
        \A i \in Species :
            lastStep.ret[i] = NextValue(lastStep.in, lastStep.params, i)

\* a step from a vector whose components all differ from their successors
C8_Witness ==
    /\ lastStep.n > 0
    /\ \A i \in Species : lastStep.ret[i] # lastStep.in[i]

\* C9: the growth rates in force are those of the most recently applied known
\* preset (the balanced ones at the start), every step has used the rates in
\* force when it ran, and an applyScenario call leaves the published vector
\* and the chart points as they were.
C9_LastScenarioWins ==
    /\ [](/\ params.r = PresetR(lastKnown)
          /\ lastStep.params.r = PresetR(lastStep.known))
    /\ [][nCmds' = nCmds + 1 => pops' = pops /\ history' = history]_vars

\* balance was applied after another preset and a step has used it
C9_Witness ==
    /\ nCmds = 2
    /\ lastKnown = "balance"
    /\ lastType = "balance"
    /\ lastStep.known = "balance"
    /\ sinceApply = 1
    /\ nSteps > 1

\* C10: the chart holds min(n, 50) points after n steps, they are the most
\* recent outputs in the order produced, and the last one is the published
\* vector.
C10_HistoryWindow ==
    /\ Len(history) = Min(nSteps, HistoryWindow)
    /\ Len(history) <= HistoryWindow
    /\ \A k \in 1..Len(history) :
        history[k] = Point(outLog[nSteps - Len(history) + k])
    /\ nSteps > 0 => history[Len(history)] = Point(pops)

\* the window has slid: more steps than points, oldest points dropped
C10_Witness ==
    /\ nSteps > HistoryWindow + 1
    /\ Len(history) = HistoryWindow
    /\ history[1] # Point(outLog[1])

====
